---- MODULE Spec2Model ----
(***************************************************************************)
(* Download counter (dlcounter.py): access-log lines are matched against   *)
(* the configured expressions, accepted when newer than the timestamp read *)
(* from the database at the start of the run, and tallied in the table     *)
(* 'downloads' (id, filename, timestamp, total).                           *)
(*                                                                         *)
(* Time is counted in seconds from datetime.min (DateTimeMin).  A log line *)
(* is a record of its bracketed field, the text of its first quoted field, *)
(* the status code after it and the text after the status code.  Text is a *)
(* sequence of symbols; the expressions are searched in it as re.search    *)
(* does (leftmost start, greedy '.*').                                     *)
(*                                                                         *)
(* A file is read by readlines() and then iterated in order; the model     *)
(* draws the number of lines when the file is opened and each line when    *)
(* the loop reaches it, which yields the same sequences of lines.  The     *)
(* program may be started any number of times; MaxReads bounds the lines   *)
(* all its runs read together.  Every start reads dlcounter.cfg, which may *)
(* have been edited since the start before.                                *)
(***************************************************************************)
EXTENDS Integers, Sequences, FiniteSets, TLC

\* ------------------------------------------------------------------ bounds
MaxTime == 2        \* latest second a log line is stamped with
MaxFiles == 2       \* log files of one run
MaxReads == 3       \* log lines read by all invocations together
MaxCalls == 4       \* calls of update_db when the store is taken on its own

\* --------------------------------------------------------------- constants
DateTimeMin == 0    \* datetime.min
None == -1          \* Python's None where a datetime is expected

\* ------------------------------------------------------------------- input
Stamp(w, z) == [kind |-> "ok", wall |-> w, tz |-> z]
BadStamp == [kind |-> "bad", wall |-> 0, tz |-> 0]
NoStamp == [kind |-> "absent", wall |-> 0, tz |-> 0]

Line(s, r, c, t) == [stamp |-> s, req |-> r, status |-> c, tail |-> t]
NoLine == Line(NoStamp, <<>>, "none", <<>>)

ReqA == <<"GET", " ", "/", "up", "/", "x", "/", "a", ".zip", " ", "HTTP">>
ReqB == <<"GET", " ", "/", "up", "/", "b", ".exe", " ", "HTTP">>
ReqY == <<"GET", " ", "/", "up", "/", "y", "/", "a", ".zip", " ", "HTTP">>
RefB == <<"http", "/", "up", "/", "b", ".exe">>

LogLines ==
    {Line(Stamp(t, 0), r, "200", <<>>) : t \in 0..MaxTime, r \in {ReqA, ReqB}}
    \cup {Line(Stamp(1, 1), ReqA, "200", RefB),
          Line(Stamp(MaxTime, 0), ReqY, "200", <<>>),
          Line(Stamp(MaxTime, 0), ReqA, "404", <<>>),
          Line(BadStamp, ReqA, "200", <<>>),
          Line(Stamp(1, 0), ReqA, "none", <<>>)}

\* The characters of a line in which a matching expression is searched.
Text(record) == record.req \o <<"\"">> \o record.tail

\* ----------------------------------------------------------- configuration
\* get_config: one expression 'GET <path>.*<file>' per [FILENAMES] entry.
Pattern(path, file) == [start |-> <<"GET", " ">> \o path, end |-> file]

\* faulty variant: without an entry, one expression for any file under path
re_patterns_any(path, files) ==
    IF files = <<>> THEN <<Pattern(path, <<>>)>>
    ELSE [i \in DOMAIN files |-> Pattern(path, files[i])]

re_patterns(path, files) == [i \in DOMAIN files |-> Pattern(path, files[i])]

get_config(logs, path, files, webpage) ==
    [acclogs |-> logs, searchstring |-> re_patterns(path, files),
     html_out |-> webpage]

LogNames(n) == [i \in 1..n |-> i]

\* dlcounter.cfg as distributed
DefaultConfig ==
    get_config(LogNames(MaxFiles), <<"/", "up", "/">>,
               <<<<".zip">>, <<".exe">>>>, "downloads.html")

\* dlcounter.cfg with a [FILENAMES] section that has no entry
NoSuffixConfig ==
    get_config(LogNames(MaxFiles), <<"/", "up", "/">>, <<>>, "downloads.html")

\* dlcounter.cfg with [FILENAMES] and [WEBPAGE] sections that have no entry
BareConfig ==
    get_config(LogNames(MaxFiles), <<"/", "up", "/">>, <<>>, "")

Configs == {DefaultConfig, NoSuffixConfig}

AllConfigs == Configs \cup {BareConfig}

\* ------------------------------------------------------------ line extractor
StartsAt(s, chars, i) ==
    /\ i >= 1
    /\ i + Len(s) - 1 <= Len(chars)
    /\ SubSeq(chars, i, i + Len(s) - 1) = s

SetMin(S) == CHOOSE x \in S : \A y \in S : x <= y
SetMax(S) == CHOOSE x \in S : \A y \in S : x >= y

\* re.search(pattern, record) for 'GET <start>.*<end>': the leftmost place
\* where start occurs with end somewhere after it; '.*' is greedy, so the
\* span runs to the last occurrence of end.  <<>> when there is no match.
re_search(pattern, chars) ==
    LET starts == {i \in 1..Len(chars) : StartsAt(pattern.start, chars, i)}
        ends(i) == {j \in (i + Len(pattern.start))..Len(chars) :
                        StartsAt(pattern.end, chars, j)}
        hits == {i \in starts : ends(i) # {}}
    IN  IF hits = {} THEN <<>>
        ELSE LET i == SetMin(hits)
                 j == SetMax(ends(i))
             IN  SubSeq(chars, i, j + Len(pattern.end) - 1)

\* faulty variant: the matched span is not split
last_segment_whole(span) == span

\* found[0].split('/')[-1]
last_segment(span) ==
    LET slashes == {i \in 1..Len(span) : span[i] = "/"}
    IN  IF slashes = {} THEN span
        ELSE SubSeq(span, SetMax(slashes) + 1, Len(span))

\* _timestamp.replace(tzinfo=None): the wall-clock value, the offset dropped
replace_tzinfo(stamp) == stamp.wall

\* get_time: the bracketed field parsed with the read format; None stands
\* for sys.exit (field absent, or strptime raises ValueError)
get_time(record) ==
    IF record.stamp.kind = "ok" THEN replace_tzinfo(record.stamp) ELSE None

NoData == [kind |-> "none", filename |-> <<>>, time |-> None]

\* faulty variant: a line whose timestamp cannot be read is passed over
get_record_skip_bad_time(record, pattern) ==
    LET found == re_search(pattern, Text(record))
        filename == last_segment(found)
    IN  IF found = <<>> THEN NoData
        ELSE IF record.status = "none"
             THEN [kind |-> "error", filename |-> filename, time |-> None]
        ELSE IF record.status = "200" /\ get_time(record) # None
             THEN [kind |-> "data", filename |-> filename,
                   time |-> get_time(record)]
        ELSE NoData

\* faulty variant: the status code is not looked at
get_record_any_status(record, pattern) ==
    LET found == re_search(pattern, Text(record))
        filename == last_segment(found)
    IN  IF found = <<>> THEN NoData
        ELSE IF record.status = "none"
             THEN [kind |-> "error", filename |-> filename, time |-> None]
        ELSE IF get_time(record) = None
             THEN [kind |-> "exit", filename |-> filename, time |-> None]
        ELSE [kind |-> "data", filename |-> filename,
              time |-> get_time(record)]

\* get_record: "none" for None, "data" for (filename, time), "exit" when
\* get_time exits, "error" when the status expression finds nothing and
\* .group() is called on None (AttributeError).
get_record(record, pattern) ==
    LET found == re_search(pattern, Text(record))
        filename == last_segment(found)
    IN  IF found = <<>> THEN NoData
        ELSE IF record.status = "none"
             THEN [kind |-> "error", filename |-> filename, time |-> None]
        ELSE IF record.status = "200"
             THEN IF get_time(record) = None
                  THEN [kind |-> "exit", filename |-> filename, time |-> None]
                  ELSE [kind |-> "data", filename |-> filename,
                        time |-> get_time(record)]
        ELSE NoData

\* ------------------------------------------------------------- counter store
Row(i, f, ts, n) == [id |-> i, filename |-> f, timestamp |-> ts, total |-> n]

HasFile(rows, f) == \E i \in DOMAIN rows : rows[i].filename = f

\* id INTEGER PRIMARY KEY: one more than the largest id in the table
next_id(rows) ==
    IF rows = <<>> THEN 1 ELSE SetMax({rows[i].id : i \in DOMAIN rows}) + 1

\* faulty variant: the rows of a dropped table come back
sql_table_keep(exists, rows) == rows

\* CREATE TABLE IF NOT EXISTS downloads
sql_table(exists, rows) == IF exists THEN rows ELSE <<>>

\* get_db_time: the loop over the rows, from datetime.min
RECURSIVE recent_from(_, _, _)
recent_from(rows, i, recent) ==
    IF i > Len(rows) THEN recent
    ELSE recent_from(rows, i + 1,
                     IF rows[i].timestamp > recent THEN rows[i].timestamp
                     ELSE recent)

\* faulty variant: the timestamp of the row read last
get_db_time_last(rows) ==
    IF rows = <<>> THEN DateTimeMin ELSE rows[Len(rows)].timestamp

get_db_time(rows) == recent_from(rows, 1, DateTimeMin)

\* faulty variant: the statement has no WHERE clause
timestamp_query_all(rows, ts, f) ==
    [i \in DOMAIN rows |-> [rows[i] EXCEPT !.timestamp = ts]]

\* faulty variant: the timestamp is only moved forward
timestamp_query_max(rows, ts, f) ==
    [i \in DOMAIN rows |->
        IF rows[i].filename = f /\ ts > rows[i].timestamp
        THEN [rows[i] EXCEPT !.timestamp = ts]
        ELSE rows[i]]

\* Update downloads set timestamp = ? where filename = ?
timestamp_query(rows, ts, f) ==
    [i \in DOMAIN rows |->
        IF rows[i].filename = f THEN [rows[i] EXCEPT !.timestamp = ts]
        ELSE rows[i]]

\* faulty variant: the counter statement is left out
counter_query_skipped(rows, f) == rows

\* Update downloads set total = total + 1 where filename = ?
counter_query(rows, f) ==
    [i \in DOMAIN rows |->
        IF rows[i].filename = f THEN [rows[i] EXCEPT !.total = @ + 1]
        ELSE rows[i]]

\* faulty variant: filename is not UNIQUE, the INSERT is never ignored
insert_query_always(rows, f, ts, n) ==
    Append(rows, Row(next_id(rows), f, ts, n))

\* INSERT OR IGNORE INTO downloads (filename, timestamp, total): ignored
\* when the row would break UNIQUE(filename)
insert_query(rows, f, ts, n) ==
    IF HasFile(rows, f) THEN rows
    ELSE Append(rows, Row(next_id(rows), f, ts, n))

\* faulty variant: the INSERT is executed before the two UPDATEs
update_db_insert_first(rows, fname, ts) ==
    counter_query(timestamp_query(insert_query(rows, fname, ts, 1), ts, fname),
                  fname)

update_db(rows, fname, ts) ==
    insert_query(counter_query(timestamp_query(rows, ts, fname), fname),
                 fname, ts, 1)

\* datetime.strftime(dt, time_format.write) with '%a %d %b %H:%M': the
\* seconds are not written
SecondsPerMinute == 2
format_datetime_output(dt) == dt \div SecondsPerMinute

\* faulty variant: the rows are written last first
write_html_reversed(rows) ==
    [i \in DOMAIN rows |->
        <<rows[Len(rows) + 1 - i].id, rows[Len(rows) + 1 - i].filename,
          format_datetime_output(rows[Len(rows) + 1 - i].timestamp),
          rows[Len(rows) + 1 - i].total>>]

\* write_html: one table row per row of SELECT * FROM downloads
write_html(rows) ==
    [i \in DOMAIN rows |->
        <<rows[i].id, rows[i].filename,
          format_datetime_output(rows[i].timestamp), rows[i].total>>]

\* --------------------------------------------------------------------- state
VARIABLES
    hasTable,       \* the table 'downloads' exists in downloads.db
    downloads,      \* its rows, in id order
    html,           \* the table rows of the web page last written
    opt,            \* the options returned by get_config
    pc,             \* "idle": no process; "files": in the loop over the log
                    \* files; "lines": in log_to_sql's loop over the lines
    mode,           \* "main" or "init": the function run by the last start
    outcome,        \* how the last run ended: "ok", "exit" (sys.exit) or
                    \* "error" (AttributeError); "running" until it ends
    reads,          \* log lines read so far
    timecheck,      \* log_to_sql's timecheck argument (None in init_db)
    fi,             \* files of the run already taken by the loop
    nfiles,         \* files the loop goes over
    linesLeft,      \* lines of the open file not yet reached
    line,           \* the line the loop is at (NoLine before the first)
    rx,             \* expressions already applied to line
    modified,       \* log_to_sql's _modified
    main_modified,  \* main's _modified
    vacuumed,       \* the last run executed VACUUM
    \* history, read by the properties only
    accepted,       \* per filename: events passed to update_db since the
                    \* table was created
    lastAcc,        \* per filename: timestamp of the last such event
    wmMax,          \* greatest timestamp get_db_time returned at the start
                    \* of an earlier main run since the table was created
    startRows,      \* the rows at the start of the run
    sawNewer,       \* the main run read a line stamped after the timestamp
                    \* get_db_time returned
    lines200,       \* per filename: lines of the init_db run that match an
                    \* expression with that name and carry status 200
    countedNow,     \* lines accepted in the main run
    countedBefore,  \* lines accepted in earlier main runs
    settledBefore,  \* those of them not stamped after the last event that
                    \* their run accepted
    lastT,          \* timestamp of the last event the run accepted
    skipped,        \* files the running process did not find
    initCounted,    \* lines accepted by the init_db run that created the
                    \* table
    initSettled,    \* those of them not stamped after the last event that
                    \* run accepted
    \* the setting of a behaviour, never changed
    cfgs,           \* what dlcounter.cfg may hold when the program starts
    tracked         \* initCounted and initSettled are kept

prog == <<hasTable, downloads, html, opt>>
ctl == <<pc, mode, outcome, reads, timecheck, fi, nfiles, linesLeft,
         line, rx, modified, main_modified, vacuumed>>
hist == <<accepted, lastAcc, wmMax, startRows, sawNewer, lines200,
          countedNow, countedBefore, settledBefore, lastT, skipped,
          initCounted, initSettled>>
env == <<cfgs, tracked>>
vars == <<prog, ctl, hist, env>>

\* get_record for every line the logs can hold and every expression of a
\* configuration
records ==
    [c \in AllConfigs |->
        [l \in LogLines |->
            [i \in DOMAIN c.searchstring |-> get_record(l, c.searchstring[i])]]]

\* the filenames the configured expressions extract from the log lines
FileNames ==
    UNION {{records[c][l][i].filename :
                l \in LogLines, i \in DOMAIN c.searchstring} :
           c \in AllConfigs} \ {<<>>}

Zero == [f \in FileNames |-> 0]
Never == [f \in FileNames |-> None]

\* no process has run yet
Idle ==
    /\ downloads = <<>>
    /\ html = <<>>
    /\ pc = "idle" /\ mode = "none" /\ outcome = "ok"
    /\ reads = 0
    /\ timecheck = None /\ fi = 0 /\ nfiles = 0 /\ linesLeft = 0
    /\ line = NoLine /\ rx = 0
    /\ modified = FALSE /\ main_modified = FALSE /\ vacuumed = FALSE
    /\ accepted = Zero /\ lastAcc = Never
    /\ wmMax = None /\ startRows = <<>> /\ sawNewer = FALSE
    /\ lines200 = Zero
    /\ countedNow = {} /\ countedBefore = {} /\ settledBefore = {}
    /\ lastT = None /\ skipped = 0
    /\ initCounted = {} /\ initSettled = {}

\* downloads.db does not exist yet; dlcounter.cfg is as distributed or
\* has no [FILENAMES] entry
Init ==
    /\ hasTable = FALSE
    /\ cfgs = Configs /\ opt \in cfgs
    /\ tracked = FALSE
    /\ Idle

\* ------------------------------------------------------------------- history
\* the filenames for which record is a matching line with status 200
Names200(c, record) ==
    {records[c][record][i].filename :
        i \in {k \in DOMAIN c.searchstring :
                 records[c][record][k].kind \in {"data", "exit"}}}

StampTime(record) ==
    IF record.stamp.kind = "ok" THEN record.stamp.wall ELSE None

\* the watermark: the greatest last_seen of the rows, datetime.min when
\* there is none
MaxLastSeen(rows) ==
    IF rows = <<>> THEN DateTimeMin
    ELSE SetMax({rows[i].timestamp : i \in DOMAIN rows})

\* the total stored for a filename, 0 when it has no row
TotalOf(rows, f) ==
    IF HasFile(rows, f)
    THEN rows[CHOOSE i \in DOMAIN rows : rows[i].filename = f].total
    ELSE 0

HistStart ==
    /\ sawNewer' = FALSE
    /\ lines200' = Zero
    /\ countedNow' = {}
    /\ lastT' = None
    /\ skipped' = 0

\* the lines of a main run that ends move to the history of earlier runs
HistEnd ==
    /\ countedNow' = {}
    /\ countedBefore' = countedBefore \cup countedNow
    /\ settledBefore' =
          settledBefore \cup {l \in countedNow : StampTime(l) <= lastT}
    /\ wmMax' = IF mode = "main" /\ timecheck > wmMax THEN timecheck ELSE wmMax
    /\ skipped' = 0
    /\ initSettled' = IF tracked /\ mode = "init"
                      THEN {l \in initCounted : StampTime(l) <= lastT}
                      ELSE initSettled
    /\ UNCHANGED <<accepted, lastAcc, startRows, sawNewer, lines200, lastT,
                   initCounted>>

\* the process is gone: its locals are no more
NoProcess ==
    /\ pc' = "idle"
    /\ timecheck' = None /\ fi' = 0 /\ nfiles' = 0 /\ linesLeft' = 0
    /\ line' = NoLine /\ rx' = 0
    /\ modified' = FALSE /\ main_modified' = FALSE

\* ------------------------------------------------------------------- actions
\* get_config, then main: connect, sql_table, get_db_time, enter the loop
\* over opt['acclogs']
StartMain ==
    /\ pc = "idle"
    /\ opt' \in cfgs
    /\ mode' = "main" /\ outcome' = "running"
    /\ hasTable' = TRUE
    /\ downloads' = sql_table(hasTable, downloads)
    /\ timecheck' = get_db_time(downloads')
    /\ pc' = "files" /\ fi' = 0 /\ nfiles' = Len(opt'.acclogs)
    /\ linesLeft' = 0 /\ line' = NoLine /\ rx' = 0
    /\ modified' = FALSE /\ main_modified' = FALSE /\ vacuumed' = FALSE
    /\ startRows' = downloads'
    /\ HistStart
    /\ UNCHANGED <<html, reads, accepted, lastAcc, wmMax, countedBefore,
                   settledBefore, initCounted, initSettled>>
    /\ UNCHANGED env

\* get_config, then init_db: connect, DROP TABLE IF EXISTS, sql_table,
\* enter the loop over the files iglob yields
StartInit ==
    /\ pc = "idle"
    /\ opt' \in cfgs
    /\ mode' = "init" /\ outcome' = "running"
    /\ hasTable' = TRUE
    /\ downloads' = sql_table(FALSE, downloads)
    /\ timecheck' = None
    /\ \E n \in 0..MaxFiles : nfiles' = n
    /\ pc' = "files" /\ fi' = 0
    /\ linesLeft' = 0 /\ line' = NoLine /\ rx' = 0
    /\ modified' = FALSE /\ main_modified' = FALSE /\ vacuumed' = FALSE
    /\ accepted' = Zero /\ lastAcc' = Never
    /\ wmMax' = None
    /\ startRows' = downloads'
    /\ countedBefore' = {} /\ settledBefore' = {}
    /\ initCounted' = {} /\ initSettled' = {}
    /\ HistStart
    /\ UNCHANGED <<html, reads>>
    /\ UNCHANGED env

\* faulty variant: FileNotFoundError is not caught in the loop
MissingLog_uncaught ==
    /\ pc = "files" /\ fi < nfiles
    /\ vacuumed' = FALSE
    /\ outcome' = "error"
    /\ NoProcess
    /\ HistEnd
    /\ UNCHANGED <<prog, mode, reads>>
    /\ UNCHANGED env

\* open(log) raises FileNotFoundError: print, next file
MissingLog ==
    /\ pc = "files" /\ fi < nfiles
    /\ fi' = fi + 1
    /\ skipped' = skipped + 1
    /\ UNCHANGED <<prog, pc, mode, outcome, reads, timecheck, nfiles,
                   linesLeft, line, rx, modified, main_modified, vacuumed,
                   accepted, lastAcc, wmMax, startRows, sawNewer, lines200,
                   countedNow, countedBefore, settledBefore, lastT,
                   initCounted, initSettled>>
    /\ UNCHANGED env

\* open(log) succeeds and log_to_sql starts: _modified = False, readlines()
OpenLog ==
    /\ pc = "files" /\ fi < nfiles
    /\ fi' = fi + 1
    /\ pc' = "lines"
    /\ modified' = FALSE
    /\ \E n \in 0..(MaxReads - reads) : linesLeft' = n
    /\ line' = NoLine /\ rx' = 0
    /\ UNCHANGED <<prog, mode, outcome, reads, timecheck, nfiles,
                   main_modified, vacuumed, hist>>
    /\ UNCHANGED env

AllApplied == line = NoLine \/ rx = Len(opt.searchstring)

\* for line in log
ReadLine ==
    /\ pc = "lines" /\ AllApplied /\ linesLeft > 0
    /\ linesLeft' = linesLeft - 1
    /\ reads' = reads + 1
    /\ rx' = 0
    /\ \E l \in LogLines :
          /\ line' = l
          /\ sawNewer' = (sawNewer \/ (mode = "main"
                                       /\ StampTime(l) > MaxLastSeen(startRows)))
          /\ lines200' = [f \in FileNames |->
                             IF mode = "init" /\ f \in Names200(opt, l)
                             THEN lines200[f] + 1
                             ELSE lines200[f]]
    /\ UNCHANGED <<prog, pc, mode, outcome, timecheck, fi, nfiles,
                   modified, main_modified, vacuumed, accepted, lastAcc,
                   wmMax, startRows, countedNow, countedBefore,
                   settledBefore, lastT, skipped, initCounted, initSettled>>
    /\ UNCHANGED env

\* faulty variant: 'if timecheck:', the timestamp of the database is thrown away
effective_timecheck_reset(tc) == DateTimeMin

\* if not timecheck: timecheck = datetime.min
effective_timecheck(tc) == IF tc = None THEN DateTimeMin ELSE tc

\* faulty variant: '>=' for '>'
is_new_or_equal(ts, tc) == ts >= tc

\* if data[1] > timecheck
is_new(ts, tc) == ts > tc

\* faulty variant: main reads the timestamp of the database again for
\* every record
ApplyRegex_requery ==
    /\ pc = "lines" /\ line # NoLine /\ rx < Len(opt.searchstring)
    /\ LET data == records[opt][line][rx + 1]
           f == data.filename
           tc == IF mode = "main" THEN get_db_time(downloads)
                 ELSE effective_timecheck(timecheck)
       IN  /\ data.kind \in {"none", "data"}
           /\ rx' = rx + 1
           /\ IF data.kind = "data" /\ is_new(data.time, tc)
              THEN /\ downloads' = update_db(downloads, f, data.time)
                   /\ modified' = TRUE
                   /\ accepted' = [accepted EXCEPT ![f] = @ + 1]
                   /\ lastAcc' = [lastAcc EXCEPT ![f] = data.time]
                   /\ countedNow' = IF mode = "main"
                                    THEN countedNow \cup {line}
                                    ELSE countedNow
                   /\ lastT' = data.time
                   /\ initCounted' = IF tracked /\ mode = "init"
                                     THEN initCounted \cup {line}
                                     ELSE initCounted
              ELSE UNCHANGED <<downloads, modified, accepted, lastAcc,
                               countedNow, lastT, initCounted>>
    /\ UNCHANGED <<hasTable, html, opt, pc, mode, outcome, reads,
                   timecheck, fi, nfiles, linesLeft, line, main_modified,
                   vacuumed, wmMax, startRows, sawNewer, lines200,
                   countedBefore, settledBefore, skipped, initSettled>>
    /\ UNCHANGED env

\* for regex in searchstring: one pass of the loop body
ApplyRegex ==
    /\ pc = "lines" /\ line # NoLine /\ rx < Len(opt.searchstring)
    /\ LET data == records[opt][line][rx + 1]
           f == data.filename
       IN  /\ data.kind \in {"none", "data"}
           /\ rx' = rx + 1
           /\ IF data.kind = "data"
                 /\ is_new(data.time, effective_timecheck(timecheck))
              THEN /\ downloads' = update_db(downloads, f, data.time)
                   /\ modified' = TRUE
                   /\ accepted' = [accepted EXCEPT ![f] = @ + 1]
                   /\ lastAcc' = [lastAcc EXCEPT ![f] = data.time]
                   /\ countedNow' = IF mode = "main"
                                    THEN countedNow \cup {line}
                                    ELSE countedNow
                   /\ lastT' = data.time
                   /\ initCounted' = IF tracked /\ mode = "init"
                                     THEN initCounted \cup {line}
                                     ELSE initCounted
              ELSE UNCHANGED <<downloads, modified, accepted, lastAcc,
                               countedNow, lastT, initCounted>>
    /\ UNCHANGED <<hasTable, html, opt, pc, mode, outcome, reads,
                   timecheck, fi, nfiles, linesLeft, line, main_modified,
                   vacuumed, wmMax, startRows, sawNewer, lines200,
                   countedBefore, settledBefore, skipped, initSettled>>
    /\ UNCHANGED env

\* faulty variant: commit and VACUUM whatever _modified is
finally_main_always(m) == TRUE

\* the finally clause of main: commit and VACUUM when _modified
finally_main(m) == m

\* faulty variant: the events of the run are in one transaction, which the
\* exception rolls back
Raise_rollback ==
    /\ pc = "lines" /\ line # NoLine /\ rx < Len(opt.searchstring)
    /\ records[opt][line][rx + 1].kind \in {"exit", "error"}
    /\ downloads' = startRows
    /\ vacuumed' = IF mode = "main" THEN finally_main(main_modified) ELSE FALSE
    /\ outcome' = records[opt][line][rx + 1].kind
    /\ NoProcess
    /\ HistEnd
    /\ UNCHANGED <<hasTable, html, opt, mode, reads>>
    /\ UNCHANGED env

\* get_record raises (sys.exit in get_time, or AttributeError): the
\* exception leaves log_to_sql and the loop over the files, the finally
\* clause of main or init_db the process ends
Raise ==
    /\ pc = "lines" /\ line # NoLine /\ rx < Len(opt.searchstring)
    /\ records[opt][line][rx + 1].kind \in {"exit", "error"}
    /\ vacuumed' = IF mode = "main" THEN finally_main(main_modified) ELSE FALSE
    /\ outcome' = records[opt][line][rx + 1].kind
    /\ NoProcess
    /\ HistEnd
    /\ UNCHANGED <<prog, mode, reads>>
    /\ UNCHANGED env

\* log_to_sql returns to main: _modified = log_to_sql(...)
MainLogDone ==
    /\ pc = "lines" /\ mode = "main" /\ AllApplied /\ linesLeft = 0
    /\ main_modified' = modified
    /\ pc' = "files"
    /\ line' = NoLine /\ rx' = 0 /\ modified' = FALSE
    /\ UNCHANGED <<prog, mode, outcome, reads, timecheck, fi, nfiles,
                   linesLeft, vacuumed, hist>>
    /\ UNCHANGED env

\* log_to_sql returns to init_db, which drops the value
InitLogDone ==
    /\ pc = "lines" /\ mode = "init" /\ AllApplied /\ linesLeft = 0
    /\ pc' = "files"
    /\ line' = NoLine /\ rx' = 0 /\ modified' = FALSE
    /\ UNCHANGED <<prog, mode, outcome, reads, timecheck, fi, nfiles,
                   linesLeft, main_modified, vacuumed, hist>>
    /\ UNCHANGED env

\* faulty variant: the page is written whatever opt['html_out'] is
html_output_always(out, page, rows) == write_html(rows)

\* if opt['html_out']: write_html(conn, opt['html_out'])
html_output(out, page, rows) == IF out # "" THEN write_html(rows) ELSE page

\* main after the last file: HTML output, the finally clause
MainFinish ==
    /\ pc = "files" /\ mode = "main" /\ fi = nfiles
    /\ html' = html_output(opt.html_out, html, downloads)
    /\ vacuumed' = finally_main(main_modified)
    /\ outcome' = "ok"
    /\ NoProcess
    /\ HistEnd
    /\ UNCHANGED <<hasTable, downloads, opt, mode, reads>>
    /\ UNCHANGED env

\* init_db after the last file: HTML output, commit, close
InitFinish ==
    /\ pc = "files" /\ mode = "init" /\ fi = nfiles
    /\ html' = html_output(opt.html_out, html, downloads)
    /\ vacuumed' = FALSE
    /\ outcome' = "ok"
    /\ NoProcess
    /\ HistEnd
    /\ UNCHANGED <<hasTable, downloads, opt, mode, reads>>
    /\ UNCHANGED env

Next ==
    \/ StartMain
    \/ StartInit
    \/ MissingLog
    \/ OpenLog
    \/ ReadLine
    \/ ApplyRegex
    \/ Raise
    \/ MainLogDone
    \/ InitLogDone
    \/ MainFinish
    \/ InitFinish

Spec == Init /\ [][Next]_vars

\* ------------------------------------------------------- the store on its own
\* update_db called with any filename and timestamp, on the table as
\* sql_table creates it
InitStore ==
    /\ hasTable = TRUE
    /\ cfgs = Configs /\ opt \in cfgs
    /\ tracked = FALSE
    /\ Idle

Times == DateTimeMin..MaxTime

RecordEvent ==
    /\ reads < MaxCalls
    /\ reads' = reads + 1
    /\ \E f \in FileNames, ts \in Times :
          downloads' = update_db(downloads, f, ts)
    /\ UNCHANGED <<hasTable, html, opt, pc, mode, outcome, timecheck, fi,
                   nfiles, linesLeft, line, rx, modified, main_modified,
                   vacuumed, hist>>
    /\ UNCHANGED env

SpecStore == InitStore /\ [][RecordEvent]_vars

\* ------------------------------------------------- other settings of the runs
\* dlcounter.cfg is as distributed or has no [WEBPAGE] entry
InitPage ==
    /\ hasTable = FALSE
    /\ cfgs = {DefaultConfig, BareConfig} /\ opt \in cfgs
    /\ tracked = FALSE
    /\ Idle

SpecPage == InitPage /\ [][Next]_vars

\* dlcounter.cfg is as distributed; the lines init_db accepts are kept
InitReinit ==
    /\ hasTable = FALSE
    /\ cfgs = {DefaultConfig} /\ opt \in cfgs
    /\ tracked = TRUE
    /\ Idle

SpecReinit == InitReinit /\ [][Next]_vars

\* ---------------------------------------------------------------- properties
\* the step applies expression rx' to the line the loop is at
RegexStep == pc = "lines" /\ pc' = "lines" /\ line' = line /\ rx' = rx + 1

\* C1. Watermark strictness: in a main run that found T as the greatest
\* stored timestamp, a matching status-200 event stamped T changes no row,
\* and one stamped T + 1 raises the total of its filename by 1.
C1_WatermarkStrict ==
    [][(RegexStep /\ mode = "main" /\ startRows # <<>>) =>
        LET data == get_record(line, opt.searchstring[rx'])
            T == MaxLastSeen(startRows)
        IN  data.kind = "data" =>
              /\ data.time = T => downloads' = downloads
              /\ data.time = T + 1 =>
                   TotalOf(downloads', data.filename)
                     = TotalOf(downloads, data.filename) + 1]_vars

\* C1 witness: a main run over a non-empty table accepted a line stamped
\* T + 1 and has then left a matching status-200 line stamped T uncounted.
C1_Witness ==
    /\ mode = "main" /\ pc = "lines" /\ startRows # <<>>
    /\ rx = Len(opt.searchstring)
    /\ Names200(opt, line) # {}
    /\ StampTime(line) = MaxLastSeen(startRows)
    /\ line \notin countedNow
    /\ \E l \in countedNow : StampTime(l) = MaxLastSeen(startRows) + 1

\* C2 as claimed. At-most-once counting: no line accepted by a main run was
\* accepted by an earlier main run on the same table.
C2_AtMostOnce == countedNow \cap countedBefore = {}

\* C2 as amended: no line accepted by a main run was accepted by an earlier
\* main run whose last accepted event is stamped no earlier than the line.
C2_AtMostOnceSettled == countedNow \cap settledBefore = {}

\* C2 witness: a main run has read again a line that an earlier run
\* accepted, applied every expression to it and not counted it.
C2_Witness ==
    /\ mode = "main" /\ pc = "lines"
    /\ rx = Len(opt.searchstring)
    /\ line \in settledBefore
    /\ line \notin countedNow

\* C3. Accumulation: the total stored for a filename is the number of
\* events accepted for it since the table was created.
C3_Accumulation ==
    /\ \A f \in FileNames : TotalOf(downloads, f) = accepted[f]
    /\ \A i \in DOMAIN downloads : downloads[i].filename \in FileNames

\* C3 witness: a filename with two events accepted in two different runs.
C3_Witness ==
    \E f \in FileNames :
        /\ TotalOf(downloads, f) = 2
        /\ \E l \in countedBefore : f \in Names200(opt, l)
        /\ \E l \in countedNow : f \in Names200(opt, l)

\* the single atomic upsert
Upsert(rows, f, ts) ==
    IF HasFile(rows, f)
    THEN [i \in DOMAIN rows |->
            IF rows[i].filename = f
            THEN [rows[i] EXCEPT !.timestamp = ts, !.total = @ + 1]
            ELSE rows[i]]
    ELSE Append(rows, Row(next_id(rows), f, ts, 1))

\* C4. update_db's three statements are one atomic upsert, for every
\* reachable table and every (filename, timestamp); twice with the same
\* arguments raises the total by exactly 2.
C4_UpsertEquivalence ==
    \A f \in FileNames, ts \in Times :
        LET once == update_db(downloads, f, ts)
        IN  /\ once = Upsert(downloads, f, ts)
            /\ TotalOf(update_db(once, f, ts), f) = TotalOf(downloads, f) + 2

\* C4 witness: a table on which update_db has inserted a row and updated
\* it, with another filename still absent.
C4_Witness ==
    /\ Len(downloads) = 1
    /\ downloads[1].total >= 2
    /\ \E f \in FileNames : ~HasFile(downloads, f)

\* C5. Idempotent re-run: a main run that read no line stamped after the
\* watermark it started with leaves the rows as they were at its start.
C5_IdempotentRerun ==
    (mode = "main" /\ ~sawNewer) => downloads = startRows

\* C5 witness: the last line of the last file of a main run over a
\* non-empty table is a line an earlier run counted, read again, and no
\* line of the run was newer than the watermark.
C5_Witness ==
    /\ mode = "main" /\ pc = "lines" /\ ~sawNewer
    /\ startRows # <<>>
    /\ fi = nfiles /\ linesLeft = 0 /\ rx = Len(opt.searchstring)
    /\ line \in countedBefore

\* C6. Monotonic watermark: the timestamp a main run reads at its start is
\* no earlier than the one any earlier main run on the same table read.
C6_MonotonicWatermark ==
    (mode = "main" /\ pc # "idle") => timecheck >= wmMax

\* C6 witness: a main run that starts from a later watermark than an
\* earlier main run, which itself started from a stored timestamp.
C6_Witness ==
    /\ mode = "main" /\ pc # "idle"
    /\ wmMax > DateTimeMin
    /\ timecheck > wmMax

\* the step is init_db dropping the table
DropStep == pc = "idle" /\ pc' = "files" /\ mode' = "init"

\* C7. In every step the total of a filename stays the same or rises by
\* exactly 1, and it rises only by an accepted event for that filename;
\* only init_db, which drops the table, takes a total away.
C7_TotalStepsByOne ==
    [][\A f \in FileNames :
          LET before == TotalOf(downloads, f)
              after == TotalOf(downloads', f)
          IN  \/ DropStep
              \/ after = before
              \/ /\ after = before + 1
                 /\ RegexStep
                 /\ get_record(line, opt.searchstring[rx']).kind = "data"
                 /\ get_record(line, opt.searchstring[rx']).filename = f]_vars

\* C7 witness: the total of a row has risen to 3.
C7_Witness == \E i \in DOMAIN downloads : downloads[i].total = 3

\* C8. No two rows hold the same filename.
C8_UniqueFilename ==
    \A i, j \in DOMAIN downloads :
        downloads[i].filename = downloads[j].filename => i = j

\* C8 witness: two rows, one of them updated by a second event.
C8_Witness ==
    /\ Len(downloads) = 2
    /\ \E i \in DOMAIN downloads : downloads[i].total >= 2

\* C9. Last write wins: the last_seen of a row is the timestamp of the
\* event accepted last for its filename, and a filename with an accepted
\* event has a row.
C9_LastWriteWins ==
    /\ \A i \in DOMAIN downloads :
          downloads[i].timestamp = lastAcc[downloads[i].filename]
    /\ \A f \in FileNames : lastAcc[f] # None => HasFile(downloads, f)

\* C9 witness: a row whose last_seen is earlier than the timestamp of an
\* event the same run accepted for its filename before.
C9_Witness ==
    \E i \in DOMAIN downloads : \E l \in countedNow :
        /\ downloads[i].filename \in Names200(opt, l)
        /\ StampTime(l) > downloads[i].timestamp

\* C10. Reinitialize bulk load: when init_db has gone through its files,
\* the total of every filename is the number of matching status-200 lines
\* of the files it read, whatever their timestamps.
C10_ReinitCountsAll ==
    (mode = "init" /\ pc = "idle" /\ outcome = "ok") =>
        \A f \in FileNames : TotalOf(downloads, f) = lines200[f]

\* C11. Reinitialize discards all history: during and after an init_db run
\* every row is for a filename of a matching status-200 line that the run
\* read, its total is the number of events the run accepted for it (never
\* more than the run read) and its last_seen is the timestamp of the last
\* of them (accepted and lastAcc start again when init_db drops the table).
C11_ReinitDiscardsHistory ==
    mode = "init" =>
        \A i \in DOMAIN downloads :
            LET f == downloads[i].filename
            IN  /\ f \in FileNames
                /\ lines200[f] > 0
                /\ downloads[i].total <= lines200[f]
                /\ downloads[i].total = accepted[f]
                /\ downloads[i].timestamp = lastAcc[f]

\* C11 witness: init_db has gone through its files and counted events,
\* and the page written by the run before it shows a greater total for a
\* filename than the table holds now.
C11_Witness ==
    /\ mode = "init" /\ pc = "files" /\ fi = nfiles
    /\ downloads # <<>>
    /\ \E k \in DOMAIN html : html[k][4] > TotalOf(downloads, html[k][2])

\* the expressions of a configuration that match a line
matched ==
    [c \in AllConfigs |->
        [l \in LogLines |->
            {k \in DOMAIN c.searchstring :
                re_search(c.searchstring[k], Text(l)) # <<>>}]]

\* C12. Status filtering: no step taken while the loop is at a line that
\* matches a configured expression and carries a status code other than
\* 200 changes the rows, in main and in init_db.
C12_StatusFilter ==
    [][(/\ pc = "lines" /\ line # NoLine
        /\ line.status \notin {"200", "none"}
        /\ matched[opt][line] # {}) => downloads' = downloads]_vars

\* C12 witness: a main run over a non-empty table has applied every
\* expression to a matching line with status 404 stamped after the
\* watermark, and the rows are as they were at the start.
C12_Witness ==
    /\ mode = "main" /\ pc = "lines" /\ startRows # <<>>
    /\ line # NoLine /\ line.status = "404"
    /\ matched[opt][line] # {}
    /\ rx = Len(opt.searchstring)
    /\ StampTime(line) > MaxLastSeen(startRows)
    /\ downloads = startRows

\* the part of a span after its last '/', the span itself when it has none
Basename(span) ==
    CHOOSE s \in {SubSeq(span, k, Len(span)) : k \in 1..(Len(span) + 1)} :
        /\ \A j \in DOMAIN s : s[j] # "/"
        /\ Len(s) = Len(span) \/ span[Len(span) - Len(s)] = "/"

\* the final segment of the span each expression of a configuration
\* matches in a line
basenames ==
    [c \in AllConfigs |->
        [l \in LogLines |->
            [k \in DOMAIN c.searchstring |->
                Basename(re_search(c.searchstring[k], Text(l)))]]]

\* C13. Basename reduction: a step that records an event adds 1 to the
\* total of the one row keyed by the final '/'-separated segment of the
\* span its expression matched (the row is inserted when there was none),
\* and leaves the key and the total of every other row alone; whatever the
\* directories of the path, no key holds a '/'.
C13_BasenameKey ==
    [][(RegexStep /\ downloads' # downloads) =>
        LET b == basenames[opt][line][rx']
        IN  /\ Cardinality({i \in DOMAIN downloads' :
                               downloads'[i].filename = b}) = 1
            /\ TotalOf(downloads', b) = TotalOf(downloads, b) + 1
            /\ \A i \in DOMAIN downloads :
                  /\ downloads'[i].filename = downloads[i].filename
                  /\ downloads[i].filename # b =>
                        downloads'[i].total = downloads[i].total
            /\ Len(downloads') = Len(downloads) + (IF HasFile(downloads, b)
                                                   THEN 0 ELSE 1)
            /\ \A i \in DOMAIN downloads' :
                  \A j \in DOMAIN downloads'[i].filename :
                     downloads'[i].filename[j] # "/"]_vars

\* C13 witness: two lines whose requests name different full paths with
\* the same final segment were both accepted, and the one row keyed by
\* that segment has total 2.
C13_Witness ==
    \E l1, l2 \in countedNow \cup countedBefore :
        LET s1 == re_search(DefaultConfig.searchstring[1], Text(l1))
            s2 == re_search(DefaultConfig.searchstring[1], Text(l2))
        IN  /\ s1 # <<>> /\ s2 # <<>> /\ s1 # s2
            /\ Basename(s1) = Basename(s2)
            /\ Len(downloads) = 1
            /\ downloads[1].filename = Basename(s1)
            /\ downloads[1].total = 2

\* C14. Unparsable timestamp is fatal: when the next expression to apply
\* matches a status-200 line whose bracketed field is absent or does not
\* parse, the step taken ends the process by sys.exit: no row changes, no
\* further line is read and the page is not written.
C14_BadTimestampFatal ==
    [][(/\ pc = "lines" /\ line # NoLine /\ rx < Len(opt.searchstring)
        /\ line.status = "200" /\ line.stamp.kind # "ok"
        /\ (rx + 1) \in matched[opt][line])
       => (/\ pc' = "idle" /\ outcome' = "exit"
           /\ downloads' = downloads /\ reads' = reads
           /\ html' = html)]_vars

\* C14 witness: a main run has ended by sys.exit after it recorded an
\* event, and the page does not show the row that event inserted.
C14_Witness ==
    /\ mode = "main" /\ pc = "idle" /\ outcome = "exit"
    /\ downloads # startRows
    /\ Len(html) < Len(downloads)

\* C15. Missing input file is non-fatal: the step main takes for the next
\* configured log never ends the process and changes neither the rows,
\* the snapshot of the timestamp, the list of files nor main's _modified;
\* when the file is not found the step changes nothing but the position
\* in the list, so the rest of the run goes as if the path were not there.
C15_MissingLogSkipped ==
    [][(mode = "main" /\ pc = "files" /\ fi < nfiles) =>
        /\ pc' \in {"files", "lines"}
        /\ fi' = fi + 1
        /\ UNCHANGED <<prog, outcome, timecheck, nfiles, main_modified,
                       vacuumed>>
        /\ skipped' # skipped =>
              /\ pc' = "files"
              /\ UNCHANGED <<reads, linesLeft, line, rx, modified>>]_vars

\* C15 witness: main did not find its first log and has accepted an
\* event from the last one.
C15_Witness ==
    /\ mode = "main" /\ pc = "lines"
    /\ skipped = 1 /\ fi = nfiles
    /\ line \in countedNow
    /\ downloads # startRows

\* C16. Single watermark snapshot per run: while main runs, the timestamp
\* it compares with is the greatest last_seen of the rows as they were at
\* its start and no step changes it; an expression that matches a
\* status-200 line with a readable timestamp records an event exactly when
\* that timestamp is later than the snapshot, whatever the run has stored
\* since.
C16_SingleSnapshot ==
    [][(mode = "main" /\ pc # "idle") =>
        /\ timecheck = MaxLastSeen(startRows)
        /\ pc' # "idle" => timecheck' = timecheck
        /\ (/\ RegexStep
            /\ line.status = "200" /\ line.stamp.kind = "ok"
            /\ rx' \in matched[opt][line])
           => (downloads' # downloads
                 <=> StampTime(line) > MaxLastSeen(startRows))]_vars

\* C16 witness: a main run over a non-empty table has accepted two
\* different lines with the same timestamp, the second when the table
\* already held that timestamp.
C16_Witness ==
    /\ mode = "main" /\ pc = "lines" /\ startRows # <<>>
    /\ line \in countedNow
    /\ \E l \in countedNow : l # line /\ StampTime(l) = StampTime(line)
    /\ MaxLastSeen(downloads) = StampTime(line)

\* the step is main starting: sql_table, then get_db_time
MainStartStep == pc = "idle" /\ pc' = "files" /\ mode' = "main"

\* C17. get_db_time returns the greatest last_seen of the rows of the
\* table, and datetime.min when the table has no row; the step of main
\* that calls it keeps the value as its timecheck and changes no row.
C17_GetDbTimeIsMax ==
    [][/\ get_db_time(<<>>) = DateTimeMin
       /\ downloads' # <<>> =>
             /\ \E i \in DOMAIN downloads' :
                   get_db_time(downloads') = downloads'[i].timestamp
             /\ \A i \in DOMAIN downloads' :
                   get_db_time(downloads') >= downloads'[i].timestamp
       /\ MainStartStep =>
             /\ timecheck' = get_db_time(downloads')
             /\ hasTable => downloads' = downloads]_vars

\* C17 witness: main has started on a table of two rows of which the
\* first holds the later last_seen, and its timecheck is that one.
C17_Witness ==
    /\ mode = "main" /\ pc = "files" /\ fi = 0
    /\ Len(startRows) = 2
    /\ startRows[1].timestamp > startRows[2].timestamp
    /\ timecheck = startRows[1].timestamp

\* C18. No-op runs skip compaction: a main run that has accepted no event
\* has not executed VACUUM when it ends, however it ends, and the rows
\* are as they were at its start.
C18_NoOpSkipsVacuum ==
    (mode = "main" /\ lastT = None) =>
        (~vacuumed /\ downloads = startRows)

\* C18 witness: a main run over a non-empty table has ended normally; it
\* read a line stamped after its watermark but accepted no event.
C18_Witness ==
    /\ mode = "main" /\ pc = "idle" /\ outcome = "ok"
    /\ startRows # <<>>
    /\ sawNewer /\ lastT = None
    /\ ~vacuumed

\* C19. Report round trip: when a run has ended normally with a page
\* configured, the page has one table row for each row of the table and
\* no other, in the order of the table, which is that of the ids; the
\* table row carries the id, the filename and the total of its row, and no
\* filename is on the page twice.
C19_ReportRoundTrip ==
    (pc = "idle" /\ outcome = "ok" /\ opt.html_out # "") =>
        /\ Len(html) = Len(downloads)
        /\ \A i \in DOMAIN downloads :
              /\ html[i][1] = downloads[i].id
              /\ html[i][2] = downloads[i].filename
              /\ html[i][4] = downloads[i].total
        /\ \A i, j \in DOMAIN html :
              /\ i < j => html[i][1] < html[j][1]
              /\ html[i][2] = html[j][2] => i = j

\* C19 witness: a run has written a page of two table rows with different
\* counts.
C19_Witness ==
    /\ pc = "idle" /\ outcome = "ok" /\ mode # "none"
    /\ Len(html) = 2 /\ Len(downloads) = 2
    /\ html[1][4] # html[2][4]

\* C20. Empty suffix list is a no-op: get_config builds no expression from
\* an empty [FILENAMES] section, and a run started with that configuration,
\* main or init_db, accepts no line and records no event: main leaves the
\* rows as they were and init_db leaves the table it created empty.
C20_NoSuffixNoOp ==
    /\ NoSuffixConfig.searchstring = <<>>
    /\ (opt = NoSuffixConfig /\ mode # "none") =>
          /\ lastT = None /\ countedNow = {}
          /\ ~vacuumed
          /\ downloads = startRows
          /\ mode = "init" => downloads = <<>>

\* C20 witness: a main run without expressions, over a non-empty table,
\* has read as the last line of its last log a status-200 line that the
\* distributed configuration matches, stamped after the watermark.
C20_Witness ==
    /\ opt = NoSuffixConfig
    /\ mode = "main" /\ pc = "lines" /\ startRows # <<>>
    /\ fi = nfiles /\ linesLeft = 0
    /\ line # NoLine /\ line.status = "200"
    /\ matched[DefaultConfig][line] # {}
    /\ StampTime(line) > MaxLastSeen(startRows)

\* the step is main or init_db leaving the loop over the files
FinishStep == pc = "files" /\ pc' = "idle"

\* C21. Report ordering: the page changes only in the step main or init_db
\* takes after the last log file, and only with a page configured; that
\* step changes no row and writes one table row for each row of the table
\* as it is then, so that every filename with an accepted event is on the
\* page with the number of its events; with no page configured no step
\* changes the page.
C21_ReportAfterAllFiles ==
    [][/\ html' # html => (FinishStep /\ opt.html_out # "")
       /\ FinishStep => (fi = nfiles /\ downloads' = downloads)
       /\ (FinishStep /\ opt.html_out # "") =>
             /\ Len(html') = Len(downloads)
             /\ \A i \in DOMAIN downloads :
                   /\ html'[i][1] = downloads[i].id
                   /\ html'[i][2] = downloads[i].filename
                   /\ html'[i][4] = downloads[i].total
             /\ \A f \in FileNames :
                   accepted[f] > 0 =>
                     \E k \in DOMAIN html' :
                        html'[k][2] = f /\ html'[k][4] = accepted[f]
       /\ opt.html_out = "" => html' = html]_vars

\* C21 witness: init_db has run without a page configured and ended
\* normally; the page, which an earlier run wrote after it counted two
\* events, still shows the rows of the table that init_db dropped.
C21_Witness ==
    /\ mode = "init" /\ pc = "idle" /\ outcome = "ok"
    /\ opt.html_out = ""
    /\ downloads = <<>>
    /\ \E k \in DOMAIN html : html[k][4] >= 2

\* C22. Frame of an Incremental run: sql_table at the start of main leaves
\* the rows of an existing table as they are; while main runs, every row
\* that was there at its start is still at its place with its id and its
\* filename, and is the same in last_seen and total too unless a line the
\* run accepted gave its filename; the step that ends the run changes no
\* row.
C22_IncrementalFrame ==
    [][/\ (MainStartStep /\ hasTable) => downloads' = downloads
       /\ (mode = "main" /\ pc # "idle" /\ pc' = "idle") =>
             downloads' = downloads
       /\ (mode' = "main" /\ pc' # "idle") =>
             /\ Len(downloads') >= Len(startRows')
             /\ \A i \in DOMAIN startRows' :
                   /\ downloads'[i].id = startRows'[i].id
                   /\ downloads'[i].filename = startRows'[i].filename
                   /\ (\A l \in countedNow' :
                          startRows'[i].filename \notin Names200(opt', l))
                      => downloads'[i] = startRows'[i]]_vars

\* C22 witness: main has gone through its logs over a table of two rows;
\* it has counted an event for the second and the first is as it was.
C22_Witness ==
    /\ mode = "main" /\ pc = "files" /\ fi = nfiles
    /\ Len(startRows) = 2 /\ Len(downloads) = 2
    /\ downloads[1] = startRows[1]
    /\ downloads[2].total = startRows[2].total + 1

\* C23 as claimed. Reinitialize hands over to Incremental: a main run accepts
\* no line that the init_db run that created the table accepted.
C23_NoRecount ==
    mode = "main" => countedNow \cap initCounted = {}

\* C23 as amended: a main run accepts no line that the init_db run that
\* created the table accepted, if the last event that run accepted is
\* stamped no earlier than the line.
C23_NoRecountSettled ==
    mode = "main" => countedNow \cap initSettled = {}

\* C23 witness: the first main run after init_db has read again a line
\* that init_db accepted, applied every expression to it and not counted
\* it.
C23_Witness ==
    /\ mode = "main" /\ pc = "lines" /\ wmMax = None
    /\ rx = Len(opt.searchstring)
    /\ line \in initSettled
    /\ line \notin countedNow

\* the sum of all totals
RECURSIVE SumTotals(_)
SumTotals(rows) ==
    IF rows = <<>> THEN 0 ELSE Head(rows).total + SumTotals(Tail(rows))

\* C24 as claimed. One line, one count: a line raises the sum of all totals
\* by at most 1 however many expressions match it, so the sum of the totals
\* of the table never exceeds the number of lines read.
C24_OneLineOneCount ==
    SumTotals(downloads) <= reads

\* C25 as claimed. Compaction runs whenever the run changed the store: a
\* main run that accepted an event in any of its files and went through all
\* of them has run the commit and VACUUM of its finally clause.
C25_ChangedStoreCompacted ==
    (mode = "main" /\ pc = "idle" /\ outcome = "ok" /\ lastT # None)
        => vacuumed

\* C26. Abort keeps earlier events: the step that ends a run by sys.exit on
\* an unparsable timestamp leaves in the table every event the run has
\* accepted: the total of each filename is the number of events accepted
\* for it since the table was created, each line a main run counted has
\* raised a total over its value at the start of the run, and the table is
\* not the one the run started with when the run accepted an event.
C26_AbortKeepsEvents ==
    [][(pc = "lines" /\ pc' = "idle" /\ outcome' = "exit")
       => (/\ \A f \in FileNames : TotalOf(downloads', f) = accepted[f]
           /\ \A l \in countedNow :
                 \E f \in Names200(opt, l) :
                    TotalOf(downloads', f) > TotalOf(startRows, f)
           /\ lastT # None => downloads' # startRows)]_vars

\* C26 witness: a main run has ended by sys.exit in a later file after an
\* earlier file gave an accepted event, and the table holds that event.
C26_Witness ==
    /\ mode = "main" /\ pc = "idle" /\ outcome = "exit"
    /\ vacuumed /\ lastT # None
    /\ SumTotals(downloads) > SumTotals(startRows)

\* the latest timestamp among the lines earlier main runs counted
PrevMax == SetMax({StampTime(l) : l \in countedBefore})

\* a main run has applied every expression to a matching status-200 line
\* with a readable timestamp, earlier main runs counted lines, and the
\* timestamp main read from the database is that of the latest of them (as
\* it is when lines come in non-decreasing order and each run reads all
\* the lines written since the run before)
InOrderLine ==
    /\ mode = "main" /\ pc = "lines" /\ line # NoLine
    /\ rx = Len(opt.searchstring)
    /\ Names200(opt, line) # {} /\ line.stamp.kind = "ok"
    /\ countedBefore # {}
    /\ timecheck = PrevMax

\* C27 as claimed. No event is missed: a matching status-200 line that is
\* not older than the lines counted so far is counted by exactly one run,
\* the line with the timestamp of the last line counted included.
C27_NoEventMissed ==
    InOrderLine =>
        /\ (StampTime(line) >= PrevMax /\ line \notin countedBefore)
              => line \in countedNow
        /\ line \in countedBefore => line \notin countedNow

\* C27 as amended: a matching status-200 line later than the lines counted
\* so far is counted by the run that reads it, a line an earlier run
\* counted is not counted again, and a line with the timestamp of the last
\* line counted is not counted.
C27_NoLaterEventMissed ==
    InOrderLine =>
        /\ StampTime(line) > PrevMax => line \in countedNow
        /\ line \in countedBefore => line \notin countedNow
        /\ StampTime(line) = PrevMax => line \notin countedNow

\* C27 witness: a main run has applied every expression to a line that no
\* run counted and that has the timestamp of the last line counted, and
\* has not counted it.
C27_Witness ==
    /\ InOrderLine
    /\ StampTime(line) = PrevMax
    /\ line \notin countedBefore
    /\ line \notin countedNow

\* C28 as claimed. A line that matches the next expression to apply but
\* fails the status check, a line with no quoted field followed by a
\* 3-digit code included, is discarded without error: the step taken
\* changes no row and the run goes on with the next expression or line.
C28_StatusFailDiscarded ==
    [][(/\ pc = "lines" /\ line # NoLine /\ rx < Len(opt.searchstring)
        /\ (rx + 1) \in matched[opt][line]
        /\ line.status # "200")
       => (/\ pc' = "lines" /\ line' = line /\ rx' = rx + 1
           /\ downloads' = downloads)]_vars

====
